---- MODULE Spec2Model ----
(***************************************************************************)
(* A model of lib/transaction/tracer/debug.js: the debugging Tracer, its   *)
(* entity hierarchy (Transaction -> Segment -> Call), its Describer and    *)
(* the three proxies (transactionProxy, segmentProxy, callbackProxy).      *)
(*                                                                         *)
(* JavaScript runs the proxies on one synchronous call stack.  The model   *)
(* keeps that stack explicitly: invoking a proxied callable runs the       *)
(* proxy's code up to the point where it calls the wrapped handler and     *)
(* pushes a frame; while a frame is on top its handler is executing and    *)
(* may build proxies, invoke callables or return; returning runs the rest  *)
(* of the proxy's code and pops the frame.  With an empty stack the event  *)
(* loop is in control and may do the same things.                          *)
(***************************************************************************)
EXTENDS Integers, Sequences, FiniteSets, TLC

VARIABLES
  numTransactions,  \* Tracer.numTransactions
  numSegments,      \* Transaction.numSegments, per constructed Transaction
  numCalls,         \* Segment.numCalls, per constructed Segment
  calls,            \* the Call objects constructed so far
  describer,        \* Tracer.describer: the four logs
  context,          \* Tracer.context: the shared context
  numStates,        \* State objects allocated so far (object identity)
  closures,         \* the closures callbackProxy has created (state, call)
  fns,              \* the callables the program holds
  made,             \* the last proxy constructor call: by, handler, fn
  stack,            \* the JavaScript call stack: one frame per invocation
  returned,         \* what the last returning callable returned
  numProxies,       \* proxy constructor calls so far
  numInvocations,   \* callable invocations so far
  thrown,           \* the error the last step threw to its invoker
  produced          \* what agent.createTransaction() returned in the last step

vars == << numTransactions, numSegments, numCalls, calls, describer, context,
           numStates, closures, fns, made, stack, returned, numProxies,
           numInvocations, thrown, produced >>

\* Bounds of the model.
MaxProxies == 2
MaxInvocations == 3

\* The handler functions of the program and what each returns.
Handlers == {"h1"}
HandlerResult == [h1 |-> "42"]

\* no State (null / undefined) where a State is expected
None == [kind |-> "none"]

\* undefined as the result of a function
Undefined == "undefined"

\* no error thrown
NoError == "no error"

\* agent.createTransaction() was not called
NotAsked == [kind |-> "not asked"]

\* the errors a handler of the program may raise
HandlerErrors == {"boom"}

----------------------------------------------------------------------------
(* CALL, SEGMENT, TRANSACTION *)

Call(id, segment, value) == [id |-> id, segment |-> segment, value |-> value]

\* The error the Call constructor throws for these arguments, if any.
CallError(id, segment, value) ==
  IF id = 0 THEN "Calls must have an ID."
  ELSE IF segment = None THEN "Calls must be associated with a segment."
  ELSE IF value = "" THEN "Calls must be associated with a segment value."
  ELSE NoError

CallFormat(call) ==
  "T" \o ToString(call.segment.transaction.id) \o
  "S" \o ToString(call.segment.id) \o
  "C" \o ToString(call.id)

Segment(id, transaction, value) ==
  [id |-> id, transaction |-> transaction, value |-> value]

\* The error the Segment constructor throws for these arguments, if any.
SegmentError(id, transaction, value) ==
  IF id = 0 THEN "Segments must have an ID."
  ELSE IF transaction = None
       THEN "Segments must be associated with a transaction."
  ELSE IF value = "" THEN "Segments must be associated with a value."
  ELSE NoError

Transaction(id, value) == [id |-> id, value |-> value]

\* a Transaction constructor that takes any value
TransactionError_AnyValue(id, value) ==
  IF id = 0 THEN "Transactions must have an ID." ELSE NoError

\* The error the Transaction constructor throws for these arguments, if any.
TransactionError(id, value) ==
  IF id = 0 THEN "Transactions must have an ID."
  ELSE IF value = None THEN "Transactions must be associated with a value."
  ELSE NoError

\* State (state.js): new State(transaction, segment, call, full); oid is the
\* identity of the object.
State(oid, transaction, segment, call, full) ==
  [oid |-> oid, transaction |-> transaction, segment |-> segment,
   call |-> call, full |-> full]

\* agent.createTransaction(): the n-th request value, with its trace root.
AgentCreateTransaction(n) ==
  [request |-> n, root |-> "root" \o ToString(n)]

\* What a failing agent may return instead: no value, or a value whose
\* trace has no root.
AgentFailures(n) == {None, [request |-> n, root |-> ""]}

----------------------------------------------------------------------------
(* DESCRIBER *)

NewDescriber ==
  [trace |-> <<>>, creations |-> <<>>, wrappings |-> <<>>, verbose |-> <<>>]

TraceCall(d, direction, call) ==
  LET id == direction \o CallFormat(call)
  IN  [d EXCEPT !.trace = Append(@, id), !.verbose = Append(@, id)]

\* type[0]
FirstLetter == [Trace |-> "T", Segment |-> "S", Call |-> "C"]

\* traceCreation without the push to verbose
TraceCreation_NoVerbose(d, type) ==
  LET creation == "+" \o FirstLetter[type]
  IN  [d EXCEPT !.creations = Append(@, creation)]

TraceCreation(d, type) ==
  LET creation == "+" \o FirstLetter[type]
  IN  [d EXCEPT !.creations = Append(@, creation),
                !.verbose = Append(@, creation)]

TraceWrapping(d, direction, type) ==
  LET wrapping == direction \o type
  IN  [d EXCEPT !.wrappings = Append(@, wrapping),
                !.verbose = Append(@, wrapping)]

----------------------------------------------------------------------------
(* CONTEXT: enter saves the State that was active, exit restores it.  The  *)
(* context also records the calls made to it.                              *)

NewContext == [state |-> None, saved |-> <<>>, calls |-> <<>>]

ContextEnter(c, state) ==
  [state |-> state,
   saved |-> Append(c.saved, c.state),
   calls |-> Append(c.calls, [op |-> "enter", state |-> state])]

ContextExit(c, state) ==
  [state |-> c.saved[Len(c.saved)],
   saved |-> SubSeq(c.saved, 1, Len(c.saved) - 1),
   calls |-> Append(c.calls, [op |-> "exit", state |-> state])]

----------------------------------------------------------------------------
(* TRACER: the part of the program state its methods read and write is     *)
(* passed around as a record m.                                            *)

Cur ==
  [numTransactions |-> numTransactions, numSegments |-> numSegments,
   numCalls |-> numCalls, calls |-> calls, describer |-> describer,
   context |-> context]

Commit(m) ==
  /\ numTransactions' = m.numTransactions
  /\ numSegments' = m.numSegments
  /\ numCalls' = m.numCalls
  /\ calls' = m.calls
  /\ describer' = m.describer
  /\ context' = m.context

\* f @@ (k :> v) with the standard-module operators spelled out
Extend(f, k, v) == [x \in DOMAIN f \cup {k} |-> IF x = k THEN v ELSE f[x]]

Wrapping(m, direction, type) ==
  [m EXCEPT !.describer = TraceWrapping(@, direction, type)]

TracerEnter(m, state) ==
  [m EXCEPT !.describer = TraceCall(@, "->", state.call),
            !.context = ContextEnter(@, state)]

\* exit tracing the call as entered once more
TracerExit_TracesEnter(m, state) ==
  [m EXCEPT !.describer = TraceCall(@, "->", state.call),
            !.context = ContextExit(@, state)]

\* exit that traces the call and leaves the context as it is
TracerExit_KeepsContext(m, state) ==
  [m EXCEPT !.describer = TraceCall(@, "<-", state.call)]

TracerExit(m, state) ==
  [m EXCEPT !.describer = TraceCall(@, "<-", state.call),
            !.context = ContextExit(@, state)]

\* addTransaction with numTransactions = 1 for numTransactions += 1
AddTransaction_SetsOne(m, value) ==
  LET n == 1
      transaction == Transaction(n, value)
  IN  [m |-> [m EXCEPT !.numTransactions = n,
                       !.describer = TraceCreation(@, "Trace"),
                       !.numSegments = Extend(@, transaction, 0)],
       transaction |-> transaction,
       error |-> NoError]

\* Tracer.prototype.addTransaction: the tracer after the call, the
\* Transaction it returns and the error it throws instead, if any.
AddTransaction(m, value) ==
  LET n == m.numTransactions + 1
      counted == [m EXCEPT !.numTransactions = n,
                           !.describer = TraceCreation(@, "Trace")]
      error == TransactionError(n, value)
      transaction == Transaction(n, value)
  IN  IF error # NoError
      THEN [m |-> counted, transaction |-> None, error |-> error]
      ELSE [m |-> [counted EXCEPT !.numSegments = Extend(@, transaction, 0)],
            transaction |-> transaction,
            error |-> NoError]

\* Tracer.prototype.addSegment with Transaction.prototype.addSegment
AddSegment(m, transaction, value) ==
  LET n == m.numSegments[transaction] + 1
      counted == [m EXCEPT !.describer = TraceCreation(@, "Segment"),
                           !.numSegments[transaction] = n]
      error == SegmentError(n, transaction, value)
      segment == Segment(n, transaction, value)
  IN  IF error # NoError
      THEN [m |-> counted, segment |-> None, error |-> error]
      ELSE [m |-> [counted EXCEPT !.numCalls = Extend(@, segment, 0)],
            segment |-> segment,
            error |-> NoError]

\* addCall that leaves the segment's numCalls as it is
AddCall_NoIncrement(m, segment, value) ==
  LET n == m.numCalls[segment] + 1
      call == Call(n, segment, value)
  IN  [m |-> [m EXCEPT !.describer = TraceCreation(@, "Call"),
                       !.calls = @ \cup {call}],
       call |-> call,
       error |-> NoError]

\* Tracer.prototype.addCall with Segment.prototype.addCall
AddCall(m, segment, value) ==
  LET n == m.numCalls[segment] + 1
      counted == [m EXCEPT !.describer = TraceCreation(@, "Call"),
                           !.numCalls[segment] = n]
      error == CallError(n, segment, value)
      call == Call(n, segment, value)
  IN  IF error # NoError
      THEN [m |-> counted, call |-> None, error |-> error]
      ELSE [m |-> [counted EXCEPT !.calls = @ \cup {call}],
            call |-> call,
            error |-> NoError]

----------------------------------------------------------------------------
(* The call stack *)

\* One invocation of a callable whose handler has not returned yet: the
\* State it entered (None when it entered none), its closure (callbackProxy)
\* and the State the context held when the invocation began.
Frame(kind, handler, state, closure, before) ==
  [kind |-> kind, handler |-> handler, state |-> state, closure |-> closure,
   before |-> before]

Top == stack[Len(stack)]
Pop == SubSeq(stack, 1, Len(stack) - 1)

CanConstruct == numProxies < MaxProxies
CanInvoke == numInvocations < MaxInvocations

Callable(kind, handler, closure) ==
  [kind |-> kind, handler |-> handler, closure |-> closure]

\* The record of a proxy constructor call: which one, its argument and the
\* callable it returned.
Made(by, handler, fn) == [by |-> by, handler |-> handler, fn |-> fn]

Init ==
  /\ numTransactions = 0
  /\ numSegments = << >>
  /\ numCalls = << >>
  /\ calls = {}
  /\ describer = NewDescriber
  /\ context = NewContext
  /\ numStates = 0
  /\ closures = << >>
  /\ fns = {}
  /\ made = None
  /\ stack = << >>
  /\ returned = Undefined
  /\ numProxies = 0
  /\ numInvocations = 0
  /\ thrown = NoError
  /\ produced = NotAsked

----------------------------------------------------------------------------
(* transactionProxy *)

\* transactionProxy creating the Transaction when it is called
TransactionProxy_CreatesTransaction(handler) ==
  /\ CanConstruct
  /\ LET m1 == Wrapping(Cur, "->", "T outer")
         value == AgentCreateTransaction(m1.numTransactions + 1)
         t == AddTransaction(m1, value)
         m2 == Wrapping(t.m, "<-", "T outer")
     IN  Commit(m2)
  /\ made' = Made("transactionProxy", handler,
                   Callable("T inner", handler, 0))
  /\ fns' = fns \cup {made'.fn}
  /\ numProxies' = numProxies + 1
  /\ thrown' = NoError
  /\ produced' = NotAsked
  /\ UNCHANGED << numStates, closures, stack, returned, numInvocations >>

\* tracer.transactionProxy(handler): the 'T outer' wrapper is called at once
\* and returns the 'T inner' wrapper.
TransactionProxy(handler) ==
  /\ CanConstruct
  /\ LET m1 == Wrapping(Cur, "->", "T outer")
         m2 == Wrapping(m1, "<-", "T outer")
     IN  Commit(m2)
  /\ made' = Made("transactionProxy", handler,
                   Callable("T inner", handler, 0))
  /\ fns' = fns \cup {made'.fn}
  /\ numProxies' = numProxies + 1
  /\ thrown' = NoError
  /\ produced' = NotAsked
  /\ UNCHANGED << numStates, closures, stack, returned, numInvocations >>

\* The invocation ends with an error thrown to the invoker: the handler is
\* not applied.
Throws(m, error) ==
  /\ Commit(m)
  /\ thrown' = error
  /\ numStates' = numStates
  /\ stack' = stack

\* Invoking the callable transactionProxy returned, with value what
\* agent.createTransaction() returns, up to handler.apply or to the error a
\* constructor throws.
InvokeTransactionValue(f, value) ==
  /\ f.kind = "T inner"
  /\ CanInvoke
  /\ LET m1 == Wrapping(Cur, "->", "T inner")
         t == AddTransaction(m1, value)
     IN  IF t.error # NoError
         THEN Throws(t.m, t.error)
         ELSE IF value = None
         THEN Throws(t.m, "TypeError: Cannot call method 'getTrace' of undefined")
         ELSE
           LET s == AddSegment(t.m, t.transaction, value.root)
           IN  IF s.error # NoError
               THEN Throws(s.m, s.error)
               ELSE
                 LET c == AddCall(s.m, s.segment, f.handler)
                 IN  IF c.error # NoError
                     THEN Throws(c.m, c.error)
                     ELSE
                       LET state == State(numStates + 1, t.transaction,
                                          s.segment, c.call, TRUE)
                           m2 == TracerEnter(c.m, state)
                       IN  /\ Commit(m2)
                           /\ thrown' = NoError
                           /\ numStates' = numStates + 1
                           /\ stack' = Append(stack,
                                  Frame("T", f.handler, state, 0,
                                        context.state))
  /\ produced' = value
  /\ numInvocations' = numInvocations + 1
  /\ UNCHANGED << closures, fns, made, returned, numProxies >>

\* The same with an agent that produces a request value.
InvokeTransaction(f) ==
  InvokeTransactionValue(f, AgentCreateTransaction(numTransactions + 1))

\* the 'T inner' function without its return statement
ReturnTransaction_NoResult ==
  /\ stack # << >>
  /\ Top.kind = "T"
  /\ LET m1 == TracerExit(Cur, Top.state)
         m2 == Wrapping(m1, "<-", "T inner")
     IN  Commit(m2)
  /\ returned' = Undefined
  /\ stack' = Pop
  /\ thrown' = NoError
  /\ produced' = NotAsked
  /\ UNCHANGED << numStates, closures, fns, made, numProxies, numInvocations >>

\* The handler returns: exit, leave the 'T inner' wrapper, return.
ReturnTransaction ==
  /\ stack # << >>
  /\ Top.kind = "T"
  /\ LET m1 == TracerExit(Cur, Top.state)
         m2 == Wrapping(m1, "<-", "T inner")
     IN  Commit(m2)
  /\ returned' = HandlerResult[Top.handler]
  /\ stack' = Pop
  /\ thrown' = NoError
  /\ produced' = NotAsked
  /\ UNCHANGED << numStates, closures, fns, made, numProxies, numInvocations >>

----------------------------------------------------------------------------
(* segmentProxy *)

\* tracer.segmentProxy(handler): the 'S outer' wrapper is called at once and
\* returns the 'S inner' wrapper.
SegmentProxy(handler) ==
  /\ CanConstruct
  /\ LET m1 == Wrapping(Cur, "->", "S outer")
         m2 == Wrapping(m1, "<-", "S outer")
     IN  Commit(m2)
  /\ made' = Made("segmentProxy", handler,
                   Callable("S inner", handler, 0))
  /\ fns' = fns \cup {made'.fn}
  /\ numProxies' = numProxies + 1
  /\ thrown' = NoError
  /\ produced' = NotAsked
  /\ UNCHANGED << numStates, closures, stack, returned, numInvocations >>

\* segmentProxy's callable adding its Call to the active Segment
InvokeSegment_CallUnderActive(f) ==
  /\ f.kind = "S inner"
  /\ CanInvoke
  /\ LET m1 == Wrapping(Cur, "->", "S inner")
         state == m1.context.state
     IN  IF state = None
         THEN /\ Commit(m1)
              /\ numStates' = numStates
              /\ stack' = Append(stack,
                     Frame("S", f.handler, None, 0, context.state))
         ELSE LET s == AddSegment(m1, state.transaction, state.segment.value)
                  c == AddCall(s.m, state.segment, f.handler)
                  new == State(numStates + 1, state.transaction, s.segment,
                               c.call, TRUE)
                  m2 == TracerEnter(c.m, new)
              IN  /\ Commit(m2)
                  /\ numStates' = numStates + 1
                  /\ stack' = Append(stack,
                         Frame("S", f.handler, new, 0, context.state))
  /\ numInvocations' = numInvocations + 1
  /\ thrown' = NoError
  /\ produced' = NotAsked
  /\ UNCHANGED << closures, fns, made, returned, numProxies >>

\* segmentProxy's callable creating a Transaction when no State is active
InvokeSegment_ImplicitTransaction(f) ==
  /\ f.kind = "S inner"
  /\ CanInvoke
  /\ LET m1 == Wrapping(Cur, "->", "S inner")
         state == m1.context.state
     IN  IF state = None
         THEN LET value == AgentCreateTransaction(m1.numTransactions + 1)
                  t == AddTransaction(m1, value)
              IN  /\ Commit(t.m)
                  /\ numStates' = numStates
                  /\ stack' = Append(stack,
                         Frame("S", f.handler, None, 0, context.state))
         ELSE LET s == AddSegment(m1, state.transaction, state.segment.value)
                  c == AddCall(s.m, s.segment, f.handler)
                  new == State(numStates + 1, state.transaction, s.segment,
                               c.call, TRUE)
                  m2 == TracerEnter(c.m, new)
              IN  /\ Commit(m2)
                  /\ numStates' = numStates + 1
                  /\ stack' = Append(stack,
                         Frame("S", f.handler, new, 0, context.state))
  /\ numInvocations' = numInvocations + 1
  /\ thrown' = NoError
  /\ produced' = NotAsked
  /\ UNCHANGED << closures, fns, made, returned, numProxies >>

\* segmentProxy's callable bound to the first State that was entered
InvokeSegment_FirstState(f) ==
  /\ f.kind = "S inner"
  /\ CanInvoke
  /\ LET m1 == Wrapping(Cur, "->", "S inner")
         state == IF context.calls = << >> THEN None
                  ELSE context.calls[1].state
     IN  IF state = None
         THEN /\ Commit(m1)
              /\ numStates' = numStates
              /\ stack' = Append(stack,
                     Frame("S", f.handler, None, 0, context.state))
         ELSE LET s == AddSegment(m1, state.transaction, state.segment.value)
                  c == AddCall(s.m, s.segment, f.handler)
                  new == State(numStates + 1, state.transaction, s.segment,
                               c.call, TRUE)
                  m2 == TracerEnter(c.m, new)
              IN  /\ Commit(m2)
                  /\ numStates' = numStates + 1
                  /\ stack' = Append(stack,
                         Frame("S", f.handler, new, 0, context.state))
  /\ numInvocations' = numInvocations + 1
  /\ thrown' = NoError
  /\ produced' = NotAsked
  /\ UNCHANGED << closures, fns, made, returned, numProxies >>

\* segmentProxy's callable testing for a State outside the 'S inner' wrapper
InvokeSegment_OuterOnly(f) ==
  /\ f.kind = "S inner"
  /\ CanInvoke
  /\ LET m1 == Wrapping(Cur, "->", "S inner")
         state == context.state
     IN  IF state = None
         THEN /\ Commit(Cur)
              /\ numStates' = numStates
              /\ stack' = Append(stack,
                     Frame("S", f.handler, None, 0, context.state))
         ELSE LET s == AddSegment(m1, state.transaction, state.segment.value)
                  c == AddCall(s.m, s.segment, f.handler)
                  new == State(numStates + 1, state.transaction, s.segment,
                               c.call, TRUE)
                  m2 == TracerEnter(c.m, new)
              IN  /\ Commit(m2)
                  /\ numStates' = numStates + 1
                  /\ stack' = Append(stack,
                         Frame("S", f.handler, new, 0, context.state))
  /\ numInvocations' = numInvocations + 1
  /\ thrown' = NoError
  /\ produced' = NotAsked
  /\ UNCHANGED << closures, fns, made, returned, numProxies >>

\* Invoking the callable segmentProxy returned, up to handler.apply: with no
\* State in the context the handler is applied directly.
InvokeSegment(f) ==
  /\ f.kind = "S inner"
  /\ CanInvoke
  /\ LET m1 == Wrapping(Cur, "->", "S inner")
         state == m1.context.state
     IN  IF state = None
         THEN /\ Commit(m1)
              /\ numStates' = numStates
              /\ stack' = Append(stack,
                     Frame("S", f.handler, None, 0, context.state))
         ELSE LET s == AddSegment(m1, state.transaction, state.segment.value)
                  c == AddCall(s.m, s.segment, f.handler)
                  new == State(numStates + 1, state.transaction, s.segment,
                               c.call, TRUE)
                  m2 == TracerEnter(c.m, new)
              IN  /\ Commit(m2)
                  /\ numStates' = numStates + 1
                  /\ stack' = Append(stack,
                         Frame("S", f.handler, new, 0, context.state))
  /\ numInvocations' = numInvocations + 1
  /\ thrown' = NoError
  /\ produced' = NotAsked
  /\ UNCHANGED << closures, fns, made, returned, numProxies >>

\* The handler returns: on the passthrough path its result is returned as it
\* is, otherwise exit first; then leave the 'S inner' wrapper.
ReturnSegment ==
  /\ stack # << >>
  /\ Top.kind = "S"
  /\ LET m1 == IF Top.state = None THEN Cur ELSE TracerExit(Cur, Top.state)
         m2 == Wrapping(m1, "<-", "S inner")
     IN  Commit(m2)
  /\ returned' = HandlerResult[Top.handler]
  /\ stack' = Pop
  /\ thrown' = NoError
  /\ produced' = NotAsked
  /\ UNCHANGED << numStates, closures, fns, made, numProxies, numInvocations >>

----------------------------------------------------------------------------
(* callbackProxy *)

\* The closure of one callbackProxy call: its variables state and call (and
\* handler).  captured remembers the State read at construction.
Closure(state, call, handler) ==
  [state |-> state, call |-> call, handler |-> handler, captured |-> state]

\* callbackProxy crossing the 'C outer' wrapper before it looks for a State
CallbackProxy_WrapsFirst(handler) ==
  /\ CanConstruct
  /\ LET state == context.state
         m1 == Wrapping(Cur, "->", "C outer")
     IN  IF state = None
         THEN /\ Commit(Wrapping(m1, "<-", "C outer"))
              /\ closures' = closures
              /\ made' = Made("callbackProxy", handler,
                               Callable("handler", handler, 0))
         ELSE LET c == AddCall(m1, state.call.segment, handler)
                  m2 == Wrapping(c.m, "<-", "C outer")
              IN  /\ Commit(m2)
                  /\ closures' = Append(closures,
                         Closure(state, c.call, handler))
                  /\ made' = Made("callbackProxy", handler,
                         Callable("C inner", handler, Len(closures) + 1))
  /\ fns' = fns \cup {made'.fn}
  /\ numProxies' = numProxies + 1
  /\ thrown' = NoError
  /\ produced' = NotAsked
  /\ UNCHANGED << numStates, stack, returned, numInvocations >>

\* tracer.callbackProxy(handler): with no State in the context the handler
\* itself is returned; otherwise the 'C outer' wrapper is called at once,
\* adds the Call and returns the 'C inner' wrapper.
CallbackProxy(handler) ==
  /\ CanConstruct
  /\ LET state == context.state
     IN  IF state = None
         THEN /\ Commit(Cur)
              /\ closures' = closures
              /\ made' = Made("callbackProxy", handler,
                               Callable("handler", handler, 0))
         ELSE LET m1 == Wrapping(Cur, "->", "C outer")
                  c == AddCall(m1, state.call.segment, handler)
                  m2 == Wrapping(c.m, "<-", "C outer")
              IN  /\ Commit(m2)
                  /\ closures' = Append(closures,
                         Closure(state, c.call, handler))
                  /\ made' = Made("callbackProxy", handler,
                         Callable("C inner", handler, Len(closures) + 1))
  /\ fns' = fns \cup {made'.fn}
  /\ numProxies' = numProxies + 1
  /\ thrown' = NoError
  /\ produced' = NotAsked
  /\ UNCHANGED << numStates, stack, returned, numInvocations >>

\* callbackProxy's callable adding its Call on every invocation
InvokeCallback_AddsCall(f) ==
  /\ f.kind = "C inner"
  /\ CanInvoke
  /\ LET cl == closures[f.closure]
         m1 == Wrapping(Cur, "->", "C inner")
         c == AddCall(m1, cl.state.call.segment, f.handler)
         state == State(numStates + 1, cl.state.transaction, cl.state.segment,
                        c.call, TRUE)
         m2 == TracerEnter(c.m, state)
     IN  /\ Commit(m2)
         /\ closures' = [closures EXCEPT ![f.closure].state = state]
         /\ numStates' = numStates + 1
         /\ stack' = Append(stack,
                Frame("C", f.handler, state, f.closure, context.state))
  /\ numInvocations' = numInvocations + 1
  /\ thrown' = NoError
  /\ produced' = NotAsked
  /\ UNCHANGED << fns, made, returned, numProxies >>

\* callbackProxy's callable building its State from the State the context
\* holds when it is invoked
InvokeCallback_CurrentState(f) ==
  /\ f.kind = "C inner"
  /\ CanInvoke
  /\ LET cl == closures[f.closure]
         from == IF context.state = None THEN cl.state ELSE context.state
         m1 == Wrapping(Cur, "->", "C inner")
         state == State(numStates + 1, from.transaction, from.segment,
                        cl.call, TRUE)
         m2 == TracerEnter(m1, state)
     IN  /\ Commit(m2)
         /\ closures' = [closures EXCEPT ![f.closure].state = state]
         /\ numStates' = numStates + 1
         /\ stack' = Append(stack,
                Frame("C", f.handler, state, f.closure, context.state))
  /\ numInvocations' = numInvocations + 1
  /\ thrown' = NoError
  /\ produced' = NotAsked
  /\ UNCHANGED << fns, made, returned, numProxies >>

\* callbackProxy's callable building its State from the Segment of the
\* first State that was entered
InvokeCallback_FirstSegment(f) ==
  /\ f.kind = "C inner"
  /\ CanInvoke
  /\ LET cl == closures[f.closure]
         m1 == Wrapping(Cur, "->", "C inner")
         state == State(numStates + 1, cl.state.transaction,
                        context.calls[1].state.segment, cl.call, TRUE)
         m2 == TracerEnter(m1, state)
     IN  /\ Commit(m2)
         /\ closures' = [closures EXCEPT ![f.closure].state = state]
         /\ numStates' = numStates + 1
         /\ stack' = Append(stack,
                Frame("C", f.handler, state, f.closure, context.state))
  /\ numInvocations' = numInvocations + 1
  /\ thrown' = NoError
  /\ produced' = NotAsked
  /\ UNCHANGED << fns, made, returned, numProxies >>

\* Invoking the callable callbackProxy returned, up to handler.apply: the
\* closure's variable state is assigned the new State.
InvokeCallback(f) ==
  /\ f.kind = "C inner"
  /\ CanInvoke
  /\ LET cl == closures[f.closure]
         m1 == Wrapping(Cur, "->", "C inner")
         state == State(numStates + 1, cl.state.transaction, cl.state.segment,
                        cl.call, TRUE)
         m2 == TracerEnter(m1, state)
     IN  /\ Commit(m2)
         /\ closures' = [closures EXCEPT ![f.closure].state = state]
         /\ numStates' = numStates + 1
         /\ stack' = Append(stack,
                Frame("C", f.handler, state, f.closure, context.state))
  /\ numInvocations' = numInvocations + 1
  /\ thrown' = NoError
  /\ produced' = NotAsked
  /\ UNCHANGED << fns, made, returned, numProxies >>

\* The handler returns: exit with the closure's variable state, leave the
\* 'C inner' wrapper, return.
ReturnCallback ==
  /\ stack # << >>
  /\ Top.kind = "C"
  /\ LET m1 == TracerExit(Cur, closures[Top.closure].state)
         m2 == Wrapping(m1, "<-", "C inner")
     IN  Commit(m2)
  /\ returned' = HandlerResult[Top.handler]
  /\ stack' = Pop
  /\ thrown' = NoError
  /\ produced' = NotAsked
  /\ UNCHANGED << numStates, closures, fns, made, numProxies, numInvocations >>

----------------------------------------------------------------------------
(* A handler that callbackProxy returned unwrapped *)

InvokeHandler(f) ==
  /\ f.kind = "handler"
  /\ CanInvoke
  /\ stack' = Append(stack, Frame("H", f.handler, None, 0, context.state))
  /\ numInvocations' = numInvocations + 1
  /\ thrown' = NoError
  /\ produced' = NotAsked
  /\ UNCHANGED << numTransactions, numSegments, numCalls, calls, describer,
                  context, numStates, closures, fns, made, returned,
                  numProxies >>

ReturnHandler ==
  /\ stack # << >>
  /\ Top.kind = "H"
  /\ returned' = HandlerResult[Top.handler]
  /\ stack' = Pop
  /\ thrown' = NoError
  /\ produced' = NotAsked
  /\ UNCHANGED << numTransactions, numSegments, numCalls, calls, describer,
                  context, numStates, closures, fns, made, numProxies,
                  numInvocations >>

----------------------------------------------------------------------------

\* raising with the exit of a try/finally around handler.apply
Raise_ExitsFirst(error) ==
  /\ stack # << >>
  /\ stack' = Pop
  /\ thrown' = error
  /\ produced' = NotAsked
  /\ IF Top.state # None
     THEN Commit(TracerExit(Cur, Top.state))
     ELSE Commit(Cur)
  /\ UNCHANGED << numStates, closures, fns, made, returned, numProxies,
                  numInvocations >>

\* The handler that is executing raises an error (or lets one it received
\* pass): the proxy's code after handler.apply is not run.
Raise(error) ==
  /\ stack # << >>
  /\ stack' = Pop
  /\ thrown' = error
  /\ produced' = NotAsked
  /\ UNCHANGED << numTransactions, numSegments, numCalls, calls, describer,
                  context, numStates, closures, fns, made, returned,
                  numProxies, numInvocations >>

----------------------------------------------------------------------------

Next ==
  \/ \E h \in Handlers : TransactionProxy(h)
  \/ \E f \in fns : InvokeTransaction(f)
  \/ ReturnTransaction
  \/ \E h \in Handlers : SegmentProxy(h)
  \/ \E f \in fns : InvokeSegment(f)
  \/ ReturnSegment
  \/ \E h \in Handlers : CallbackProxy(h)
  \/ \E f \in fns : InvokeCallback(f)
  \/ ReturnCallback
  \/ \E f \in fns : InvokeHandler(f)
  \/ ReturnHandler

Spec == Init /\ [][Next]_vars

\* The program with handlers that may raise and an agent that may fail.
NextFault ==
  \/ Next
  \/ \E f \in fns : \E value \in AgentFailures(numTransactions + 1) :
       InvokeTransactionValue(f, value)
  \/ \E error \in HandlerErrors : Raise(error)

SpecFault == Init /\ [][NextFault]_vars

----------------------------------------------------------------------------
(* Reading the logs *)

\* The call-trace tokens the bounded program can produce, by what they name.
TokenIds ==
  [direction : {"->", "<-"}, t : 1..MaxInvocations, s : 1..MaxInvocations,
   c : 1..(MaxProxies + 1)]

TokenText ==
  [r \in TokenIds |->
     r.direction \o "T" \o ToString(r.t) \o "S" \o ToString(r.s) \o
     "C" \o ToString(r.c)]

\* The direction and the three ids a call-trace token names.
TokenTable ==
  [token \in {TokenText[r] : r \in TokenIds} |->
     CHOOSE r \in TokenIds : TokenText[r] = token]

ParseToken(token) == TokenTable[token]

TokenKey(token) ==
  LET r == ParseToken(token) IN << r.t, r.s, r.c >>

\* Reading a call-trace log from token i on with the enters in open not yet
\* closed: ok unless some '<-' token does not close the most recent unclosed
\* '->' token; open are the enters left unclosed at the end.
RECURSIVE Nesting(_, _, _)
Nesting(log, i, open) ==
  IF i > Len(log)
  THEN [ok |-> TRUE, open |-> open]
  ELSE IF ParseToken(log[i]).direction = "->"
       THEN Nesting(log, i + 1, Append(open, TokenKey(log[i])))
       ELSE IF open # << >> /\ open[Len(open)] = TokenKey(log[i])
            THEN Nesting(log, i + 1, SubSeq(open, 1, Len(open) - 1))
            ELSE [ok |-> FALSE, open |-> open]

CorrectlyNested(log) == Nesting(log, 1, << >>).ok

\* The tokens of a call-trace log that name transaction id t.
TokensOf(log, t) == SelectSeq(log, LAMBDA token : ParseToken(token).t = t)

\* How many times x occurs in the sequence.
RECURSIVE Count(_, _)
Count(seq, x) ==
  IF seq = << >> THEN 0
  ELSE (IF Head(seq) = x THEN 1 ELSE 0) + Count(Tail(seq), x)

IsPrefix(a, b) == Len(a) <= Len(b) /\ SubSeq(b, 1, Len(a)) = a

\* The invocations on the stack that entered a State, outermost first.
Entered == SelectSeq(stack, LAMBDA fr : fr.state # None)

CallKey(call) == << call.segment.transaction.id, call.segment.id, call.id >>

\* A step that invokes a callable of the given frame kind / whose handler
\* returns to the proxy of the given frame kind.
Invokes(kind) ==
  Len(stack') = Len(stack) + 1 /\ stack'[Len(stack')].kind = kind
Returns(kind) ==
  Len(stack') = Len(stack) - 1 /\ stack[Len(stack)].kind = kind

----------------------------------------------------------------------------
(* Claims *)

\* C1: in every proxy invocation that enters a State the order is enter
\* (with its '->' token), then the handler body, then exit (with its '<-'
\* token).  While a handler is executing, the enters of the call-trace log
\* not yet closed are exactly those of the invocations on the stack, in
\* stack order, and the context has received as many more enters than exits;
\* so once an invocation has returned its enter is matched, and with the
\* stack empty no enter is left unmatched.
C1_EnterHandlerExit ==
  LET n == Nesting(describer.trace, 1, << >>)
  IN  /\ n.ok
      /\ n.open = [i \in 1..Len(Entered) |-> CallKey(Entered[i].state.call)]
      /\ Count([i \in 1..Len(context.calls) |-> context.calls[i].op], "enter")
           - Count([i \in 1..Len(context.calls) |-> context.calls[i].op], "exit")
         = Len(Entered)

\* C1 witness: a callback's handler is executing inside a transaction's
\* handler after an earlier invocation has returned.
C1_Witness ==
  /\ Len(stack) = 2
  /\ stack[1].kind = "T"
  /\ stack[2].kind = "C"
  /\ Len(describer.trace) = 4

\* C2: when a proxied callable of any of the three kinds returns, the
\* context's current-State slot holds exactly the State (or none) it held
\* when that invocation began; with the stack empty (every top-level
\* invocation has returned) the slot holds none.
C2_SlotRestored ==
  /\ [](stack = << >> => context.state = None)
  /\ [][\A kind \in {"T", "S", "C"} :
          Returns(kind) => context'.state = stack[Len(stack)].before]_vars

\* C2 witness: a nested invocation has returned inside a transaction's
\* handler and the slot holds the transaction's State again.
C2_Witness ==
  /\ Len(stack) = 1
  /\ stack[1].kind = "T"
  /\ Len(context.calls) = 3
  /\ context.calls[3].op = "exit"
  /\ context.state = stack[1].state

\* C3: while the handler of a callable returned by callbackProxy executes,
\* the active State's transaction and segment are those of the State that
\* was active when callbackProxy was called and its call is the Call created
\* then, whatever the context held when the callable was invoked.
C3_CallbackResumesCaptured ==
  (stack # << >> /\ Top.kind = "C") =>
    LET cl == closures[Top.closure]
    IN  /\ context.state # None
        /\ context.state.transaction = cl.captured.transaction
        /\ context.state.segment = cl.captured.segment
        /\ context.state.call = cl.call
        /\ cl.call \in calls

\* C3 witness: the callback's handler executes, invoked while another
\* chain's State was active.
C3_Witness ==
  /\ stack # << >>
  /\ Top.kind = "C"
  /\ Top.before # None
  /\ Top.before.transaction # closures[Top.closure].captured.transaction

\* Reading the context's record of calls from call i on: every exit is given
\* the State object of the most recent enter not yet exited.
RECURSIVE Paired(_, _, _)
Paired(log, i, open) ==
  IF i > Len(log)
  THEN TRUE
  ELSE IF log[i].op = "enter"
       THEN Paired(log, i + 1, Append(open, log[i].state))
       ELSE /\ open # << >>
            /\ open[Len(open)] = log[i].state
            /\ Paired(log, i + 1, SubSeq(open, 1, Len(open) - 1))

\* C4: the Tracer calls the context's enter and exit in matched pairs: the
\* State object an invocation passes to exit is the one it passed to enter,
\* and at each exit it is the most recently entered State not yet exited.
C4_MatchedPairs == Paired(context.calls, 1, << >>)

C6_TransactionProxy ==
  /\ [](describer.wrappings =
          << "->T outer", "<-T outer", "->T inner", "<-T inner" >>
        => /\ describer.trace = << "->T1S1C1", "<-T1S1C1" >>
           /\ describer.creations = << "+T", "+S", "+C" >>
           /\ returned = "42")
  /\ [][/\ Invokes("T") =>
             LET k == Count(describer'.wrappings, "->T inner")
                 new == stack'[Len(stack')].state
             IN  /\ numTransactions' = numTransactions + 1
                 /\ DOMAIN numSegments' \ DOMAIN numSegments
                      = {new.transaction}
                 /\ DOMAIN numSegments \subseteq DOMAIN numSegments'
                 /\ DOMAIN numCalls' \ DOMAIN numCalls = {new.segment}
                 /\ DOMAIN numCalls \subseteq DOMAIN numCalls'
                 /\ calls' \ calls = {new.call}
                 /\ calls \subseteq calls'
                 /\ new.segment.transaction = new.transaction
                 /\ new.call.segment = new.segment
                 /\ new.transaction.id = k
                 /\ describer'.trace =
                      Append(describer.trace,
                             "->T" \o ToString(k) \o "S1C1")
                 /\ describer'.creations =
                      describer.creations \o << "+T", "+S", "+C" >>
        /\ Returns("T") =>
             /\ describer'.trace =
                  Append(describer.trace,
                         "<-T" \o ToString(Top.state.transaction.id)
                               \o "S1C1")
             /\ returned' = HandlerResult[Top.handler]
             /\ describer'.creations = describer.creations
             /\ numTransactions' = numTransactions
             /\ numSegments' = numSegments
             /\ numCalls' = numCalls
             /\ calls' = calls]_vars

\* C6 witness: the second invocation of a transaction-proxied callable is
\* under way, begun while the first transaction's State was active.
C6_Witness ==
  /\ stack # << >>
  /\ Top.kind = "T"
  /\ Top.before # None
  /\ Top.state.transaction.id = 2
  /\ describer.trace = << "->T1S1C1", "->T2S1C1" >>

\* The identity T<t>S<s>C<c> of a transaction, a segment and a call.
Identity(transaction, segment, call) ==
  "T" \o ToString(transaction.id) \o "S" \o ToString(segment.id) \o
  "C" \o ToString(call.id)

\* A step that creates no entity and consumes no id.
NoCreation ==
  /\ numTransactions' = numTransactions
  /\ numSegments' = numSegments
  /\ numCalls' = numCalls
  /\ calls' = calls
  /\ describer'.creations = describer.creations

\* C7: callbackProxy(h) called while a State is active creates exactly one
\* Call, then, under the then-current Segment; each invocation of the
\* callable it returns creates nothing and emits one enter token, and at
\* its return one exit token, both T<t>S<s>C<c> of the captured transaction,
\* the captured segment and that Call.
C7_CallbackProxy ==
  [][/\ (made'.by = "callbackProxy" /\ numProxies' = numProxies + 1
           /\ context.state # None) =>
          /\ made'.fn.kind = "C inner"
          /\ Len(closures') = Len(closures) + 1
          /\ LET cl == closures'[made'.fn.closure]
                 segment == context.state.segment
             IN  /\ cl.call \notin calls
                 /\ calls' = calls \cup {cl.call}
                 /\ cl.call.segment = segment
                 /\ cl.call.id = numCalls[segment] + 1
                 /\ numCalls' = [numCalls EXCEPT ![segment] = @ + 1]
                 /\ cl.captured = context.state
          /\ numTransactions' = numTransactions
          /\ numSegments' = numSegments
          /\ describer'.creations = Append(describer.creations, "+C")
          /\ describer'.trace = describer.trace
     /\ Invokes("C") =>
          LET cl == closures[stack'[Len(stack')].closure]
          IN  /\ NoCreation
              /\ describer'.trace =
                   Append(describer.trace,
                          "->" \o Identity(cl.captured.transaction,
                                           cl.captured.segment, cl.call))
     /\ Returns("C") =>
          LET cl == closures[Top.closure]
          IN  /\ NoCreation
              /\ describer'.trace =
                   Append(describer.trace,
                          "<-" \o Identity(cl.captured.transaction,
                                           cl.captured.segment, cl.call))
    ]_vars

\* C7 witness: one callback callable has been invoked twice, one invocation
\* after the other, and has emitted its pair of tokens twice.
C7_Witness ==
  /\ stack = << >>
  /\ Len(closures) = 1
  /\ describer.trace =
       << "->T1S1C1", "<-T1S1C1", "->T1S1C2", "<-T1S1C2", "->T1S1C2",
          "<-T1S1C2" >>
  /\ describer.creations = << "+T", "+S", "+C", "+C" >>

\* C8: invoking the callable segmentProxy(h) returned while a State is
\* active creates one Segment under the active Transaction (id: that
\* transaction's segment count plus one; value: the active Segment's value)
\* and one Call (id 1) under it, enters and later exits the State
\* (activeTransaction, newSegment, newCall) once, and creates no
\* Transaction.
C8_SegmentProxyActive ==
  [][/\ (Invokes("S") /\ context.state # None) =>
          LET active == context.state
              new == stack'[Len(stack')].state
          IN  /\ new # None
              /\ new.transaction = active.transaction
              /\ new.segment.transaction = active.transaction
              /\ new.segment.id = numSegments[active.transaction] + 1
              /\ new.segment.value = active.segment.value
              /\ new.call.segment = new.segment
              /\ new.call.id = 1
              /\ new.segment \notin DOMAIN numCalls
              /\ DOMAIN numCalls' = DOMAIN numCalls \cup {new.segment}
              /\ new.call \notin calls
              /\ calls' = calls \cup {new.call}
              /\ numSegments' =
                   [numSegments EXCEPT ![active.transaction] = @ + 1]
              /\ numTransactions' = numTransactions
              /\ describer'.creations =
                   describer.creations \o << "+S", "+C" >>
              /\ context'.calls =
                   Append(context.calls, [op |-> "enter", state |-> new])
              /\ describer'.trace =
                   Append(describer.trace,
                          "->" \o Identity(active.transaction, new.segment,
                                           new.call))
     /\ (Returns("S") /\ Top.before # None) =>
          /\ NoCreation
          /\ context'.calls =
               Append(context.calls, [op |-> "exit", state |-> Top.state])
          /\ describer'.trace =
               Append(describer.trace,
                      "<-" \o Identity(Top.before.transaction,
                                       Top.state.segment, Top.state.call))
    ]_vars

\* C8 witness: a segment-proxied callable invoked inside a transaction has
\* returned: the transaction has its second Segment, entered and exited.
C8_Witness ==
  /\ Len(stack) = 1
  /\ stack[1].kind = "T"
  /\ numSegments[stack[1].state.transaction] = 2
  /\ describer.trace = << "->T1S1C1", "->T1S2C1", "<-T1S2C1" >>

\* C9: invoking the callable segmentProxy(h) returned while no State is
\* active is a passthrough: h is invoked and its result returned; the call
\* trace, the creation log, every id counter and the context are unchanged.
C9_SegmentProxyPassthrough ==
  [][/\ (Invokes("S") /\ context.state = None) =>
          /\ NoCreation
          /\ describer'.trace = describer.trace
          /\ context' = context
          /\ stack'[Len(stack')].state = None
          /\ stack'[Len(stack')].handler \in Handlers
     /\ (Returns("S") /\ Top.before = None) =>
          /\ NoCreation
          /\ describer'.trace = describer.trace
          /\ context' = context
          /\ returned' = HandlerResult[Top.handler]
    ]_vars

\* C9 witness: a segment-proxied callable invoked outside any context has
\* returned its handler's result and nothing was traced or created.
C9_Witness ==
  /\ stack = << >>
  /\ describer.wrappings =
       << "->S outer", "<-S outer", "->S inner", "<-S inner" >>
  /\ returned = "42"
  /\ describer.trace = << >>
  /\ numTransactions = 0

\* C10: callbackProxy(h) called while no State is active returns h itself:
\* neither that call nor any invocation of what it returned appends to any
\* of the four logs, consumes an id or changes the context, also when the
\* invocation happens while a State is active.
C10_CallbackProxyPassthrough ==
  [][/\ (made'.by = "callbackProxy" /\ numProxies' = numProxies + 1
           /\ context.state = None) =>
          /\ made'.fn = Callable("handler", made'.handler, 0)
          /\ NoCreation
          /\ describer' = describer
          /\ context' = context
          /\ closures' = closures
     /\ (Invokes("H") \/ Returns("H")) =>
          /\ NoCreation
          /\ describer' = describer
          /\ context' = context
    ]_vars

\* C10 witness: a handler that callbackProxy returned unwrapped is executing
\* inside a transaction's handler.
C10_Witness ==
  /\ Len(stack) = 2
  /\ stack[1].kind = "T"
  /\ stack[2].kind = "H"
  /\ context.state = stack[1].state
  /\ made.by = "callbackProxy"

----------------------------------------------------------------------------
(* Entities that exist *)

\* the Transactions, Segments and Calls constructed so far
Transactions == DOMAIN numSegments

Segments == DOMAIN numCalls

SegmentsOf(transaction) == {s \in Segments : s.transaction = transaction}

CallsOf(segment) == {c \in calls : c.segment = segment}

\* the ids in the set are 1, 2, ..., one entity each
Dense(entities) ==
  /\ {e.id : e \in entities} = 1..Cardinality(entities)
  /\ \A e1, e2 \in entities : e1.id = e2.id => e1 = e2

\* C11: in every state the Transactions of the tracer have the ids 1..N in
\* creation order, the Segments of each Transaction have the ids 1..N and
\* the Calls of each Segment have the ids 1..N, whether or not they were
\* entered into context; so no two Calls have the same T<t>S<s>C<c> string.
C11_DenseIds ==
  /\ Dense(Transactions)
  /\ \A t \in Transactions : Dense(SegmentsOf(t))
  /\ \A s \in Segments : Dense(CallsOf(s))
  /\ \A c1, c2 \in calls : CallFormat(c1) = CallFormat(c2) => c1 = c2

----------------------------------------------------------------------------
(* C12: an asynchronous callback that is a subsidiary of a transaction *)

\* The wrapping boundaries crossed when the first operations of the program
\* are: transactionProxy(h), the invocation of its callable, whose handler
\* calls callbackProxy(g) once and returns.
C12_Registered ==
  << "->T outer", "<-T outer", "->T inner", "->C outer", "<-C outer",
     "<-T inner" >>

\* what the recorder holds when that handler has returned
C12_TransactionDone ==
  << "->T outer", "<-T outer", "->T inner", "+T", "+S", "+C", "->T1S1C1",
     "->C outer", "+C", "<-C outer", "<-T1S1C1", "<-T inner" >>

\* C12: when the handler of a transaction's callable registers a function
\* with callbackProxy and returns before that function runs, and the
\* callable callbackProxy returned is invoked later, then the callback's
\* '+C' lies between the transaction's enter and exit tokens, the
\* transaction's pair '->T1S1C1', '<-T1S1C1' is complete before the
\* callback's enter token, and the callback's tokens are '->T1S1C2',
\* '<-T1S1C2': the transaction's ids with a new call id.
C12_AsyncSubsidiary ==
  /\ IsPrefix(C12_Registered, describer.wrappings) =>
       IsPrefix(C12_TransactionDone, describer.verbose)
  /\ IsPrefix(C12_Registered \o << "->C inner" >>, describer.wrappings) =>
       IsPrefix(C12_TransactionDone \o << "->C inner", "->T1S1C2" >>,
                describer.verbose)
  /\ describer.wrappings = C12_Registered \o << "->C inner", "<-C inner" >> =>
       /\ describer.verbose =
            C12_TransactionDone \o
              << "->C inner", "->T1S1C2", "<-T1S1C2", "<-C inner" >>
       /\ describer.trace =
            << "->T1S1C1", "<-T1S1C1", "->T1S1C2", "<-T1S1C2" >>
       /\ describer.creations = << "+T", "+S", "+C", "+C" >>

\* C12 witness: the callback has run and returned after its transaction's
\* handler had returned.
C12_Witness ==
  /\ describer.wrappings = C12_Registered \o << "->C inner", "<-C inner" >>
  /\ stack = << >>
  /\ returned = "42"
  /\ context.state = None

----------------------------------------------------------------------------
(* C13: handler faults *)

\* the step in which the handler of an invocation that entered a State
\* raises an error
RaisesEntered ==
  /\ Len(stack') = Len(stack) - 1
  /\ thrown' # NoError
  /\ Top.state # None

\* the calls of context since the enter of the State, that enter excluded
CallsSince(state) ==
  LET i == CHOOSE k \in 1..Len(context.calls) :
             context.calls[k] = [op |-> "enter", state |-> state]
  IN  SubSeq(context.calls, i + 1, Len(context.calls))

Ops(log, op) == Cardinality({k \in 1..Len(log) : log[k].op = op})

----------------------------------------------------------------------------
(* C14: an agent that produces no value *)

\* the step in which a transaction's callable is invoked and
\* agent.createTransaction() returns no value
InvokesWithoutValue ==
  /\ numInvocations' = numInvocations + 1
  /\ produced' = None

\* C14: when the agent produces no value, the invocation of a
\* transaction's callable fails with the Transaction constructor's error:
\* no Transaction, Segment, Call or State is created by it, the handler is
\* not run, context is not called (no enter, no exit, slot unchanged) and
\* the call-trace log is unchanged.
C14_NoValueNoTransaction ==
  [][InvokesWithoutValue =>
       /\ thrown' = "Transactions must be associated with a value."
       /\ DOMAIN numSegments' = DOMAIN numSegments
       /\ DOMAIN numCalls' = DOMAIN numCalls
       /\ calls' = calls
       /\ numStates' = numStates
       /\ stack' = stack
       /\ context' = context
       /\ describer'.trace = describer.trace
    ]_vars

\* C14 witness: inside the handler of a transaction, the callable of a
\* transaction was invoked, the agent produced no value and the
\* constructor's error came back to the handler.
C14_Witness ==
  /\ produced = None
  /\ thrown = "Transactions must be associated with a value."
  /\ Len(stack) = 1
  /\ stack[1].kind = "T"
  /\ context.state = stack[1].state
  /\ describer.trace = << "->T1S1C1" >>
  /\ Cardinality(DOMAIN numSegments) = 1

----------------------------------------------------------------------------
(* C15: the four logs of the describer *)

CallTokens == DOMAIN TokenTable

CreationTokens == {"+T", "+S", "+C"}

WrappingTokens ==
  {x[1] \o x[2] :
     x \in {"->", "<-"} \X {"T outer", "T inner", "S outer", "S inner",
                            "C outer", "C inner"}}

Only(log, tokens) == SelectSeq(log, LAMBDA token : token \in tokens)

\* verbose is the interleaving of the three other logs
Interleaved(d) ==
  /\ Only(d.verbose, CallTokens) = d.trace
  /\ Only(d.verbose, CreationTokens) = d.creations
  /\ Only(d.verbose, WrappingTokens) = d.wrappings
  /\ Len(d.verbose) = Len(d.trace) + Len(d.creations) + Len(d.wrappings)

\* C15: in every state the verbose log filtered to call-trace tokens, to
\* creation tokens and to wrapping tokens is the call-trace log, the
\* creation log and the wrapping log, its length is the sum of their
\* lengths, and every step only appends: each log before the step is a
\* prefix of the same log after it.
C15_VerboseInterleaves ==
  /\ Interleaved(describer)
  /\ [][/\ Interleaved(describer')
        /\ IsPrefix(describer.trace, describer'.trace)
        /\ IsPrefix(describer.creations, describer'.creations)
        /\ IsPrefix(describer.wrappings, describer'.wrappings)
        /\ IsPrefix(describer.verbose, describer'.verbose)
       ]_vars

\* C15 witness: the verbose log holds tokens of the three kinds with a
\* creation token between two call-trace tokens.
C15_Witness ==
  /\ Len(describer.verbose) >= 11
  /\ describer.verbose[7] = "->T1S1C1"
  /\ describer.verbose[8] = "->C outer"
  /\ describer.verbose[9] = "+C"
  /\ describer.verbose[10] = "<-C outer"
  /\ describer.verbose[11] = "<-T1S1C1"

----------------------------------------------------------------------------
(* C16: the wrapping boundaries of the passthrough paths *)

InnerTokens == {"->S inner", "<-S inner", "->C inner", "<-C inner"}

\* the steps of the passthrough paths: the callable of segmentProxy is
\* invoked, or returns, with no State entered; callbackProxy is called with
\* no State in the context
SegmentPassthroughInvoked == Invokes("S") /\ context.state = None

SegmentPassthroughReturns == Returns("S") /\ Top.state = None

CallbackPassthrough ==
  /\ made'.by = "callbackProxy"
  /\ numProxies' = numProxies + 1
  /\ context.state = None

\* C16 as stated: on the passthrough paths the wrapping log receives the
\* proxy's outer-label tokens and no inner-label token.
C16_OnlyOuterFires ==
  [][/\ (SegmentPassthroughInvoked \/ SegmentPassthroughReturns) =>
          Only(describer'.wrappings, InnerTokens) =
            Only(describer.wrappings, InnerTokens)
     /\ CallbackPassthrough =>
          describer'.wrappings =
            describer.wrappings \o << "->C outer", "<-C outer" >>
    ]_vars

\* C16 amended: segmentProxy(h) itself crosses the outer boundary
\* ('->S outer', '<-S outer') whatever the context holds; each invocation of
\* its callable with no State crosses only the inner one: '->S inner'
\* before the handler and '<-S inner' after it, no other token.
\* callbackProxy called with no State crosses no boundary: no token is
\* appended by it, nor by the invocations of the handler it returned.
C16_PassthroughBoundaries ==
  [][/\ (made'.by = "segmentProxy" /\ numProxies' = numProxies + 1) =>
          /\ describer'.wrappings =
               describer.wrappings \o << "->S outer", "<-S outer" >>
          /\ describer'.verbose =
               describer.verbose \o << "->S outer", "<-S outer" >>
     /\ SegmentPassthroughInvoked =>
          /\ describer'.wrappings = Append(describer.wrappings, "->S inner")
          /\ describer'.verbose = Append(describer.verbose, "->S inner")
     /\ SegmentPassthroughReturns =>
          /\ describer'.wrappings = Append(describer.wrappings, "<-S inner")
          /\ describer'.verbose = Append(describer.verbose, "<-S inner")
     /\ (CallbackPassthrough \/ Invokes("H") \/ Returns("H")) =>
          describer' = describer
    ]_vars

\* C16 witness: both passthrough paths were taken: callbackProxy was called
\* with no State, and the callable of segmentProxy ran with no State; the
\* only tokens are those of 'S outer' and 'S inner'.
C16_Witness ==
  /\ numProxies = 2
  /\ made.by = "callbackProxy"
  /\ stack = << >>
  /\ describer.verbose =
       << "->S outer", "<-S outer", "->S inner", "<-S inner" >>

----------------------------------------------------------------------------
(* C17: what transactionProxy(handler) does when it is called *)

\* the step that is a call of transactionProxy
TransactionProxyCalled ==
  /\ made'.by = "transactionProxy"
  /\ numProxies' = numProxies + 1

\* C17 as stated: the call transactionProxy(handler) is the first
\* invocation: during it a Transaction, its root Segment and a Call are
\* created, context is entered, the handler is run and context is exited.
C17_ConstructionInvokes ==
  [][TransactionProxyCalled =>
       /\ numTransactions' = numTransactions + 1
       /\ describer'.creations = describer.creations \o << "+T", "+S", "+C" >>
       /\ Len(describer'.trace) = Len(describer.trace) + 2
       /\ Len(context'.calls) = Len(context.calls) + 2
    ]_vars

\* C17 amended: the call transactionProxy(handler) crosses the 'T outer'
\* boundary and returns a callable; it creates nothing, does not call
\* context and does not run the handler.  Transactions are created by the
\* invocations of that callable, one for each: the number of Transactions
\* is the number of '->T inner' tokens, not of '->T outer' tokens.
C17_ConstructionDefers ==
  [][/\ TransactionProxyCalled =>
          /\ describer'.verbose =
               describer.verbose \o << "->T outer", "<-T outer" >>
          /\ NoCreation
          /\ describer'.trace = describer.trace
          /\ context' = context
          /\ numStates' = numStates
          /\ stack' = stack
          /\ returned' = returned
          /\ made'.fn = Callable("T inner", made'.handler, 0)
          /\ made'.fn \in fns'
     /\ numTransactions' = Count(describer'.wrappings, "->T inner")
     /\ Invokes("T") =>
          /\ stack'[Len(stack')].handler \in {f.handler : f \in fns}
          /\ Count(describer.wrappings, "->T outer") >= 1
    ]_vars

\* C17 witness: transactionProxy was called, then segmentProxy, and only
\* then was the callable of transactionProxy invoked for the first time:
\* the Transaction was created and entered by that invocation.
C17_Witness ==
  /\ describer.verbose =
       << "->T outer", "<-T outer", "->S outer", "<-S outer", "->T inner",
          "+T", "+S", "+C", "->T1S1C1" >>
  /\ Len(stack) = 1
  /\ stack[1].kind = "T"
  /\ numTransactions = 1

----------------------------------------------------------------------------
(* C18: the context segmentProxy's callable binds to *)

\* transactionProxy(h)() whose handler calls segmentProxy(g): g's callable
\* is constructed while transaction 1 is active
C18_ConstructedInside ==
  << "->T outer", "<-T outer", "->T inner", "+T", "+S", "+C", "->T1S1C1",
     "->S outer", "<-S outer" >>

\* then the callable of transactionProxy is invoked again, and inside the
\* handler of transaction 2 the callable of segmentProxy is invoked
C18_InvokedInsideOther ==
  C18_ConstructedInside \o
    << "->T inner", "+T", "+S", "+C", "->T2S1C1", "->S inner" >>

\* or transaction 1 exits, and then the callable of segmentProxy is invoked
C18_InvokedAfterExit ==
  C18_ConstructedInside \o << "<-T1S1C1", "<-T inner", "->S inner" >>

\* C18: the callable of segmentProxy uses the State that is current when
\* it is invoked, not the one current when segmentProxy was called.
\* Constructed while transaction 1 is active and invoked while transaction
\* 2 is active, it creates its Segment under transaction 2 ('->T2S2C1');
\* constructed inside transaction 1 and invoked after its exit, it passes
\* through and creates nothing.  In every invocation the new Segment
\* belongs to the Transaction of the State that is current.
C18_BindsAtInvocation ==
  /\ [](/\ IsPrefix(C18_InvokedInsideOther, describer.verbose) =>
             IsPrefix(C18_InvokedInsideOther \o << "+S", "+C", "->T2S2C1" >>,
                      describer.verbose)
        /\ describer.verbose = C18_InvokedAfterExit =>
             /\ \E k \in 1..Len(stack) : stack[k].kind = "S"
             /\ \A k \in 1..Len(stack) : stack[k].state = None
             /\ context.state = None
             /\ describer.creations = << "+T", "+S", "+C" >>
        /\ (/\ IsPrefix(C18_InvokedAfterExit, describer.verbose)
            /\ Len(describer.verbose) > Len(C18_InvokedAfterExit)) =>
             describer.verbose[Len(C18_InvokedAfterExit) + 1]
               \in WrappingTokens)
  /\ [][Invokes("S") =>
          LET new == stack'[Len(stack')].state
          IN  IF context.state = None
              THEN new = None /\ NoCreation
              ELSE /\ new.transaction = context.state.transaction
                   /\ new.segment.transaction = context.state.transaction
                   /\ new.segment.id =
                        numSegments[context.state.transaction] + 1
       ]_vars

\* C18 witness: the callable of a segmentProxy called inside transaction 1
\* is executing its handler inside transaction 2, in a Segment of
\* transaction 2.
C18_Witness ==
  /\ describer.verbose =
       C18_InvokedInsideOther \o << "+S", "+C", "->T2S2C1" >>
  /\ Len(stack) = 3
  /\ stack[3].kind = "S"
  /\ stack[3].state.transaction = stack[2].state.transaction
  /\ stack[3].state.transaction # stack[1].state.transaction

\* the other case of C18: the callable of a segmentProxy called inside
\* transaction 1 is executing its handler after that transaction's exit,
\* with no State.
C18_WitnessAfterExit ==
  /\ describer.verbose = C18_InvokedAfterExit
  /\ Len(stack) = 1
  /\ stack[1].kind = "S"
  /\ stack[1].state = None
  /\ context.state = None

----------------------------------------------------------------------------
(* C19: the States given to context.enter *)

\* the States passed to context.enter so far
EnteredStates ==
  {context.calls[k].state :
     k \in {i \in 1..Len(context.calls) : context.calls[i].op = "enter"}}

\* C19: every State the tracer has passed to context.enter is consistent:
\* its Call belongs to its Segment, its Segment to its Transaction, the
\* three exist, and it is marked full.
C19_StatesConsistent ==
  \A state \in EnteredStates :
    /\ state.call.segment = state.segment
    /\ state.segment.transaction = state.transaction
    /\ state.full = TRUE
    /\ state.call \in calls
    /\ state.segment \in Segments
    /\ state.transaction \in Transactions

\* C19 witness: the State of a callback registered inside the second
\* transaction has been entered: Call 2 of Segment 1 of Transaction 2.
C19_Witness ==
  \E state \in EnteredStates :
    /\ state.call.id = 2
    /\ state.segment.id = 1
    /\ state.transaction.id = 2
    /\ \E fr \in {stack[k] : k \in 1..Len(stack)} :
         fr.kind = "C" /\ fr.state = state

----------------------------------------------------------------------------
(* C20: creation tokens and entities *)

\* C20: in every state the numbers of '+T', '+S' and '+C' tokens in the
\* creation log are the numbers of Transactions, Segments and Calls that
\* were constructed, and the tracer's transaction counter is the number of
\* Transactions constructed, also after invocations for which the agent
\* produced no value or a value without root.
C20_CreationsMatchEntities ==
  /\ Count(describer.creations, "+T") = Cardinality(Transactions)
  /\ Count(describer.creations, "+S") = Cardinality(Segments)
  /\ Count(describer.creations, "+C") = Cardinality(calls)
  /\ numTransactions = Cardinality(Transactions)

====
